---- MODULE Spec2Model ----
(***************************************************************************)
(* Watched-literal backtracking SAT search of simple-sat: the watchlist    *)
(* (watchlist.py), the iterative solver (iterative_sat.py) and the         *)
(* recursive solver (recursive_sat.py), driven by the consumer loop of     *)
(* sat.py.  One behaviour runs the iterative solver on an instance and     *)
(* then the recursive solver on the same instance, each from a fresh       *)
(* watchlist and assignment buffer, and keeps what each one yielded and    *)
(* every update_watchlist call each one made.                              *)
(***************************************************************************)
EXTENDS Integers, Sequences, FiniteSets, TLC

\* ---- bounds of the model ------------------------------------------------
\* Variables, clauses and literal occurrences of an instance.
MaxVars == 3
MaxClauses == 3
MaxLits == 3

\* ---- program values -----------------------------------------------------
\* Python's None in the assignment buffer ([None] * n).
None == 0 - 1

VARIABLES
    clauses,          \* instance.clauses: sequence of clauses, a clause is a sequence of literals
    n,                \* len(instance.variables)
    outputAll,        \* args.all of the consumer loop
    solver,           \* args.algorithm: "iterative" or "recursive"
    pc,               \* position of the running generator
    watchlist,        \* literal -> queue of clause indices
    assignment,       \* variable -> None, 0 or 1
    d,                \* iterative: current depth
    state,            \* iterative: per-depth trial record
    a,                \* iterative: loop variable of "for a in [0, 1]"
    tried_something,  \* iterative: flag of the current while iteration
    stack,            \* recursive: frames of _solve, innermost last
    call,             \* the update_watchlist call that has just returned
    calls,            \* all update_watchlist calls of the running solver
    yielded,          \* assignments the consumer received from the running solver
    iterCalls,        \* calls of the finished iterative run
    iterYielded       \* assignments yielded by the finished iterative run

vars == <<clauses, n, outputAll, solver, pc, watchlist, assignment, d, state,
          a, tried_something, stack, call, calls, yielded, iterCalls,
          iterYielded>>

\* ---- literal encoding (satinstance.py) ----------------------------------
\* literal >> 1
LitVar(literal) == literal \div 2

\* literal & 1
LitBit(literal) == literal % 2

\* Variant of Encode without the shift: variable | negated taken as a sum.
EncodeNoShift(variable, negated) == variable + negated

\* (variable << 1) | negated
Encode(variable, negated) == variable * 2 + negated

\* Clauses the parser can build: tuple(set(clause)) is a non-empty tuple of
\* distinct literals; the order of a set's elements is not fixed by the
\* language, so every order is taken.
ClauseSet(maxLen) ==
    {c \in UNION {[1..k -> {Encode(v, p) : v \in 0..(MaxVars - 1), p \in 0..1}] :
                     k \in 1..maxLen} :
        \A i, j \in 1..Len(c) : i # j => c[i] # c[j]}

VarsUpTo(cs, m) == UNION {{LitVar(cs[j][i]) : i \in 1..Len(cs[j])} : j \in 1..m}

\* Variables are numbered in order of first occurrence, so the variables of
\* every prefix of the clause list are 0..k-1 for some k.
Interned(cs) ==
    \A m \in 1..Len(cs) : VarsUpTo(cs, m) = 0..(Cardinality(VarsUpTo(cs, m)) - 1)

RECURSIVE TotalLits(_)
TotalLits(cs) == IF cs = <<>> THEN 0 ELSE Len(Head(cs)) + TotalLits(Tail(cs))

\* The clause lists from_file can build, one clause per line.
Instances ==
    UNION {{cs \in [1..m -> ClauseSet(MaxLits - m + 1)] :
                Interned(cs) /\ TotalLits(cs) <= MaxLits} : m \in 0..MaxClauses}

\* Variant of SetupWatchlist that watches the negation of the first literal.
SetupWatchlistNegated(cs, nv) ==
    [l \in 0..(2 * nv - 1) |->
        SelectSeq([i \in 1..Len(cs) |-> i],
                  LAMBDA i : cs[i][1] = IF l % 2 = 0 THEN l + 1 ELSE l - 1)]

\* setup_watchlist: every clause is appended, in clause order, to the queue
\* of its first literal.
SetupWatchlist(cs, nv) ==
    [l \in 0..(2 * nv - 1) |->
        SelectSeq([i \in 1..Len(cs) |-> i], LAMBDA i : cs[i][1] = l)]

\* Variant of IsEmptyList that never takes the early return.
IsEmptyListNever(wl) == FALSE

\* "not watchlist": a list with no queue at all.
IsEmptyList(wl) == DOMAIN wl = {}

\* Variant of IsAlternative with "== a" in place of "== a ^ 1".
IsAlternativeSameBit(asg, alternative) ==
    \/ asg[LitVar(alternative)] = None
    \/ asg[LitVar(alternative)] = LitBit(alternative)

\* Variant of IsAlternative that does not accept an unassigned variable.
IsAlternativeNoNone(asg, alternative) ==
    asg[LitVar(alternative)] = 1 - LitBit(alternative)

\* The test of update_watchlist's inner loop:
\* assignment[v] is None or assignment[v] == a ^ 1.
IsAlternative(asg, alternative) ==
    \/ asg[LitVar(alternative)] = None
    \/ asg[LitVar(alternative)] = 1 - LitBit(alternative)

\* Variant of FindAlternative that looks at the first literal only.
FindAlternativeFirstOnly(clause, asg) ==
    IF IsAlternative(asg, clause[1]) THEN 1 ELSE 0

\* Position in the clause of the first literal passing the test, 0 if none
\* ("for alternative in clause ... break").
FindAlternative(clause, asg) ==
    IF \E i \in 1..Len(clause) : IsAlternative(asg, clause[i])
    THEN CHOOSE i \in 1..Len(clause) :
            /\ IsAlternative(asg, clause[i])
            /\ \A j \in 1..(i - 1) : ~IsAlternative(asg, clause[j])
    ELSE 0

\* Moving the head clause c of false_literal's queue to alternative's queue:
\* del watchlist[false_literal][0]; watchlist[alternative].append(clause).
MoveWatch(wl, false_literal, alternative, c) ==
    [[wl EXCEPT ![false_literal] = Tail(@)] EXCEPT ![alternative] = Append(@, c)]

\* Variant of UpdateLoop that pops the contradicted clause before it
\* reports the failure.
RECURSIVE UpdateLoopPop(_, _, _, _)
UpdateLoopPop(wl, false_literal, asg, iters) ==
    IF wl[false_literal] = <<>>
    THEN [ok |-> TRUE, watchlist |-> wl, clause |-> 0, iters |-> iters,
          hangs |-> FALSE]
    ELSE LET c == Head(wl[false_literal])
             pos == FindAlternative(clauses[c], asg)
         IN  IF pos = 0
             THEN [ok |-> FALSE,
                   watchlist |-> [wl EXCEPT ![false_literal] = Tail(@)],
                   clause |-> c, iters |-> iters + 1, hangs |-> FALSE]
             ELSE UpdateLoopPop(MoveWatch(wl, false_literal, clauses[c][pos], c),
                                false_literal, asg, iters + 1)

\* Variant of UpdateLoop that puts the contradicted clause at the back of
\* the queue before it reports the failure.
RECURSIVE UpdateLoopRotate(_, _, _, _)
UpdateLoopRotate(wl, false_literal, asg, iters) ==
    IF wl[false_literal] = <<>>
    THEN [ok |-> TRUE, watchlist |-> wl, clause |-> 0, iters |-> iters,
          hangs |-> FALSE]
    ELSE LET c == Head(wl[false_literal])
             pos == FindAlternative(clauses[c], asg)
         IN  IF pos = 0
             THEN [ok |-> FALSE,
                   watchlist |-> [wl EXCEPT ![false_literal] = Append(Tail(@), c)],
                   clause |-> c, iters |-> iters + 1, hangs |-> FALSE]
             ELSE UpdateLoopRotate(MoveWatch(wl, false_literal, clauses[c][pos], c),
                                   false_literal, asg, iters + 1)

\* Variant of UpdateLoop with "if" for "while": only the head clause is
\* processed.
UpdateLoopOnce(wl, false_literal, asg, iters) ==
    IF wl[false_literal] = <<>>
    THEN [ok |-> TRUE, watchlist |-> wl, clause |-> 0, iters |-> iters,
          hangs |-> FALSE]
    ELSE LET c == Head(wl[false_literal])
             pos == FindAlternative(clauses[c], asg)
         IN  IF pos = 0
             THEN [ok |-> FALSE, watchlist |-> wl, clause |-> c,
                   iters |-> iters + 1, hangs |-> FALSE]
             ELSE [ok |-> TRUE,
                   watchlist |-> MoveWatch(wl, false_literal, clauses[c][pos], c),
                   clause |-> 0, iters |-> iters + 1, hangs |-> FALSE]

\* The alternative found for clause c is false_literal itself: the clause is
\* deleted from the head of the queue and appended to the same queue.
Requeues(c, false_literal, asg) ==
    /\ FindAlternative(clauses[c], asg) # 0
    /\ clauses[c][FindAlternative(clauses[c], asg)] = false_literal

\* update_watchlist: the while loop over watchlist[false_literal].  The
\* result carries the return value, the watchlist as left, the clause
\* reported as contradicted (0 if none) and the number of loop iterations.
\* When every clause left in the queue is appended back to it, the queue
\* never empties and the call never returns (hangs).
RECURSIVE UpdateLoop(_, _, _, _)
UpdateLoop(wl, false_literal, asg, iters) ==
    IF wl[false_literal] = <<>>
    THEN [ok |-> TRUE, watchlist |-> wl, clause |-> 0, iters |-> iters,
          hangs |-> FALSE]
    ELSE IF \A i \in 1..Len(wl[false_literal]) :
                Requeues(wl[false_literal][i], false_literal, asg)
    THEN [ok |-> FALSE, watchlist |-> wl, clause |-> 0, iters |-> iters,
          hangs |-> TRUE]
    ELSE LET c == Head(wl[false_literal])
             pos == FindAlternative(clauses[c], asg)
         IN  IF pos = 0
             THEN [ok |-> FALSE, watchlist |-> wl, clause |-> c,
                   iters |-> iters + 1, hangs |-> FALSE]
             ELSE UpdateLoop(MoveWatch(wl, false_literal, clauses[c][pos], c),
                             false_literal, asg, iters + 1)

\* Variant of UpdateWatchlist that never reports a contradiction.
UpdateWatchlistAlwaysOk(wl, false_literal, asg) ==
    [UpdateLoop(wl, false_literal, asg, 0) EXCEPT !.ok = TRUE]

UpdateWatchlist(wl, false_literal, asg) == UpdateLoop(wl, false_literal, asg, 0)

\* ---- the solvers' shared pieces -----------------------------------------
\* Variant of FalseLiteral with the other polarity: d << 1 | a ^ 1.
FalseLiteralFlipped(depth, value) == depth * 2 + (1 - value)

\* The literal handed to update_watchlist: d << 1 | a.
FalseLiteral(depth, value) == depth * 2 + value

\* (state[d] >> a) & 1
TriedBit(s, value) == (s \div (2 ^ value)) % 2

\* Variant of SetTriedBit with "state[d] = 1 << a" in place of "|=".
SetTriedBitOnly(s, value) == 2 ^ value

\* Variant of SetTriedBit that marks both values as tried.
SetTriedBitBoth(s, value) == 3

\* state[d] |= 1 << a
SetTriedBit(s, value) == IF TriedBit(s, value) = 1 THEN s ELSE s + 2 ^ value

NoCall == [d |-> None, a |-> None, lit |-> None, pre |-> <<>>, asg |-> <<>>,
           ok |-> TRUE,
           clause |-> 0, iters |-> 0, hangs |-> FALSE, post |-> <<>>]

\* Variant of CallRecord for a loop "for a in [1, 0]": the value tried first
\* is true.
CallRecordTrueFirst(wl, asg, depth, value) ==
    LET asg2 == [asg EXCEPT ![depth] = 1 - value]
        r == UpdateWatchlist(wl, FalseLiteral(depth, 1 - value), asg2)
    IN  [d |-> depth, a |-> 1 - value, lit |-> FalseLiteral(depth, 1 - value),
         pre |-> wl, asg |-> asg2, ok |-> r.ok, clause |-> r.clause,
         iters |-> r.iters, hangs |-> r.hangs, post |-> r.watchlist]

\* Binding assignment[depth] = value and calling update_watchlist.
CallRecord(wl, asg, depth, value) ==
    LET asg2 == [asg EXCEPT ![depth] = value]
        r == UpdateWatchlist(wl, FalseLiteral(depth, value), asg2)
    IN  [d |-> depth, a |-> value, lit |-> FalseLiteral(depth, value),
         pre |-> wl, asg |-> asg2,
         ok |-> r.ok, clause |-> r.clause, iters |-> r.iters,
         hangs |-> r.hangs, post |-> r.watchlist]

\* ---- initial state ------------------------------------------------------
Init ==
    /\ clauses \in Instances
    /\ n = Cardinality(VarsUpTo(clauses, Len(clauses)))
    /\ outputAll \in BOOLEAN
    /\ solver = "iterative"
    /\ pc = "start"
    /\ watchlist = <<>>
    /\ assignment = <<>>
    /\ d = 0
    /\ state = <<>>
    /\ a = 0
    /\ tried_something = FALSE
    /\ stack = <<>>
    /\ call = NoCall
    /\ calls = <<>>
    /\ yielded = <<>>
    /\ iterCalls = <<>>
    /\ iterYielded = <<>>

\* ---- iterative_sat.solve ------------------------------------------------
Unassigned(nv) == [i \in 0..(nv - 1) |-> None]

\* Lines 11-22: setup, "if not watchlist: return", the initial locals.
IterStart ==
    /\ solver = "iterative" /\ pc = "start"
    /\ watchlist' = SetupWatchlist(clauses, n)
    /\ IF IsEmptyList(SetupWatchlist(clauses, n))
       THEN /\ pc' = "done"
            /\ UNCHANGED <<state, assignment>>
       ELSE /\ pc' = "loop"
            /\ state' = [i \in 0..(n - 1) |-> 0]
            /\ assignment' = Unassigned(n)
    /\ d' = 0
    /\ UNCHANGED <<clauses, n, outputAll, solver, a, tried_something, stack,
                   call, calls, yielded, iterCalls, iterYielded>>

\* Lines 24-25: "if d == n: yield assignment".
IterYield ==
    /\ solver = "iterative" /\ pc = "loop" /\ d = n
    /\ yielded' = Append(yielded, assignment)
    /\ pc' = "yielded"
    /\ UNCHANGED <<clauses, n, outputAll, solver, watchlist, assignment, d,
                   state, a, tried_something, stack, call, calls, iterCalls,
                   iterYielded>>

\* Variant of IterResume without "d -= 1".
IterResumeNoRetreat ==
    /\ solver = "iterative" /\ pc = "yielded" /\ outputAll
    /\ pc' = "loop"
    /\ UNCHANGED <<clauses, n, outputAll, solver, watchlist, assignment, d,
                   state, a, tried_something, stack, call, calls, yielded,
                   iterCalls, iterYielded>>

\* Lines 26-27: the consumer asks for the next one, "d -= 1; continue".
IterResume ==
    /\ solver = "iterative" /\ pc = "yielded" /\ outputAll
    /\ d' = d - 1
    /\ pc' = "loop"
    /\ UNCHANGED <<clauses, n, outputAll, solver, watchlist, assignment,
                   state, a, tried_something, stack, call, calls, yielded,
                   iterCalls, iterYielded>>

\* Lines 30-31: "tried_something = False" and the start of the for loop.
IterEnterFor ==
    /\ solver = "iterative" /\ pc = "loop" /\ d < n
    /\ tried_something' = FALSE
    /\ a' = 0
    /\ pc' = "for"
    /\ UNCHANGED <<clauses, n, outputAll, solver, watchlist, assignment, d,
                   state, stack, call, calls, yielded, iterCalls, iterYielded>>

\* Lines 32-40: an untried value is marked, bound, and update_watchlist runs.
IterTry ==
    /\ solver = "iterative" /\ pc = "for" /\ a < 2
    /\ TriedBit(state[d], a) = 0
    /\ tried_something' = TRUE
    /\ state' = [state EXCEPT ![d] = SetTriedBit(@, a)]
    /\ call' = CallRecord(watchlist, assignment, d, a)
    /\ assignment' = call'.asg
    /\ watchlist' = call'.post
    /\ calls' = Append(calls, call')
    /\ pc' = IF call'.hangs THEN "hung" ELSE "updated"
    /\ UNCHANGED <<clauses, n, outputAll, solver, d, a, stack, yielded,
                   iterCalls, iterYielded>>

\* Line 32, condition false: the value was tried before, next a.
IterSkip ==
    /\ solver = "iterative" /\ pc = "for" /\ a < 2
    /\ TriedBit(state[d], a) = 1
    /\ a' = a + 1
    /\ UNCHANGED <<clauses, n, outputAll, solver, pc, watchlist, assignment,
                   d, state, tried_something, stack, call, calls, yielded,
                   iterCalls, iterYielded>>

\* Variant of IterFail that gives the search up at a contradiction.
IterFailAbort ==
    /\ solver = "iterative" /\ pc = "updated" /\ ~call.ok
    /\ assignment' = [assignment EXCEPT ![d] = None]
    /\ pc' = "done"
    /\ UNCHANGED <<clauses, n, outputAll, solver, watchlist, d, state, a,
                   tried_something, stack, call, calls, yielded, iterCalls,
                   iterYielded>>

\* Line 41: the update failed, "assignment[d] = None", next a.
IterFail ==
    /\ solver = "iterative" /\ pc = "updated" /\ ~call.ok
    /\ assignment' = [assignment EXCEPT ![d] = None]
    /\ a' = a + 1
    /\ pc' = "for"
    /\ UNCHANGED <<clauses, n, outputAll, solver, watchlist, d, state,
                   tried_something, stack, call, calls, yielded, iterCalls,
                   iterYielded>>

\* Lines 43-44: the update succeeded, "d += 1; break"; tried_something is
\* set, so the while loop starts over.
IterAdvance ==
    /\ solver = "iterative" /\ pc = "updated" /\ call.ok
    /\ d' = d + 1
    /\ pc' = "loop"
    /\ UNCHANGED <<clauses, n, outputAll, solver, watchlist, assignment,
                   state, a, tried_something, stack, call, calls, yielded,
                   iterCalls, iterYielded>>

\* Line 46, condition false: the for loop ended after a failed trial.
IterRetry ==
    /\ solver = "iterative" /\ pc = "for" /\ a = 2
    /\ tried_something
    /\ pc' = "loop"
    /\ UNCHANGED <<clauses, n, outputAll, solver, watchlist, assignment, d,
                   state, a, tried_something, stack, call, calls, yielded,
                   iterCalls, iterYielded>>

\* Lines 47-49: nothing left to try at depth 0, "return".
IterExhausted ==
    /\ solver = "iterative" /\ pc = "for" /\ a = 2
    /\ ~tried_something /\ d = 0
    /\ pc' = "done"
    /\ UNCHANGED <<clauses, n, outputAll, solver, watchlist, assignment, d,
                   state, a, tried_something, stack, call, calls, yielded,
                   iterCalls, iterYielded>>

\* Variant of IterBacktrack that undoes the watch moves by setting the
\* watchlist up again.
IterBacktrackUndo ==
    /\ solver = "iterative" /\ pc = "for" /\ a = 2
    /\ ~tried_something /\ d # 0
    /\ state' = [state EXCEPT ![d] = 0]
    /\ assignment' = [assignment EXCEPT ![d] = None]
    /\ watchlist' = SetupWatchlist(clauses, n)
    /\ d' = d - 1
    /\ pc' = "loop"
    /\ UNCHANGED <<clauses, n, outputAll, solver, a, tried_something, stack,
                   call, calls, yielded, iterCalls, iterYielded>>

\* Variant of IterBacktrack without "state[d] = 0".
IterBacktrackKeepState ==
    /\ solver = "iterative" /\ pc = "for" /\ a = 2
    /\ ~tried_something /\ d # 0
    /\ assignment' = [assignment EXCEPT ![d] = None]
    /\ d' = d - 1
    /\ pc' = "loop"
    /\ UNCHANGED <<clauses, n, outputAll, solver, watchlist, state, a,
                   tried_something, stack, call, calls, yielded, iterCalls,
                   iterYielded>>

\* Variant of IterBacktrack that leaves assignment[d] bound.
IterBacktrackNoUnbind ==
    /\ solver = "iterative" /\ pc = "for" /\ a = 2
    /\ ~tried_something /\ d # 0
    /\ state' = [state EXCEPT ![d] = 0]
    /\ d' = d - 1
    /\ pc' = "loop"
    /\ UNCHANGED <<clauses, n, outputAll, solver, watchlist, assignment, a,
                   tried_something, stack, call, calls, yielded, iterCalls,
                   iterYielded>>

\* Lines 50-54: backtrack.
IterBacktrack ==
    /\ solver = "iterative" /\ pc = "for" /\ a = 2
    /\ ~tried_something /\ d # 0
    /\ state' = [state EXCEPT ![d] = 0]
    /\ assignment' = [assignment EXCEPT ![d] = None]
    /\ d' = d - 1
    /\ pc' = "loop"
    /\ UNCHANGED <<clauses, n, outputAll, solver, watchlist, a,
                   tried_something, stack, call, calls, yielded, iterCalls,
                   iterYielded>>

\* ---- sat.main's consumer loop -------------------------------------------
\* Lines 35-36: "if not args.all: break" after the first assignment.
ConsumerBreak ==
    /\ pc = "yielded" /\ ~outputAll
    /\ pc' = "stopped"
    /\ UNCHANGED <<clauses, n, outputAll, solver, watchlist, assignment, d,
                   state, a, tried_something, stack, call, calls, yielded,
                   iterCalls, iterYielded>>

\* The same instance is then given to the recursive solver.
StartRecursive ==
    /\ solver = "iterative" /\ pc \in {"done", "stopped"}
    /\ solver' = "recursive"
    /\ pc' = "start"
    /\ iterCalls' = calls
    /\ iterYielded' = yielded
    /\ watchlist' = <<>>
    /\ assignment' = <<>>
    /\ d' = 0
    /\ state' = <<>>
    /\ a' = 0
    /\ tried_something' = FALSE
    /\ call' = NoCall
    /\ calls' = <<>>
    /\ yielded' = <<>>
    /\ UNCHANGED <<clauses, n, outputAll, stack>>

\* ---- recursive_sat.solve and _solve -------------------------------------
Top == stack[Len(stack)]

Pop(s) == SubSeq(s, 1, Len(s) - 1)

\* solve, lines 36-41: setup, "if not watchlist: return []", the call of
\* _solve at depth 0.
RecStart ==
    /\ solver = "recursive" /\ pc = "start"
    /\ watchlist' = SetupWatchlist(clauses, n)
    /\ IF IsEmptyList(SetupWatchlist(clauses, n))
       THEN /\ pc' = "done"
            /\ UNCHANGED <<assignment, stack>>
       ELSE /\ pc' = "frame"
            /\ assignment' = Unassigned(n)
            /\ stack' = <<[d |-> 0, a |-> 0]>>
    /\ UNCHANGED <<clauses, n, outputAll, solver, d, state, a,
                   tried_something, call, calls, yielded, iterCalls,
                   iterYielded>>

\* _solve, lines 15-16: "if d == len(instance.variables): yield assignment".
RecYield ==
    /\ solver = "recursive" /\ pc = "frame" /\ Top.d = n
    /\ yielded' = Append(yielded, assignment)
    /\ pc' = "yielded"
    /\ UNCHANGED <<clauses, n, outputAll, solver, watchlist, assignment, d,
                   state, a, tried_something, stack, call, calls, iterCalls,
                   iterYielded>>

\* Line 17: the consumer asks for the next one, the innermost call returns.
RecResume ==
    /\ solver = "recursive" /\ pc = "yielded" /\ outputAll
    /\ stack' = Pop(stack)
    /\ pc' = "frame"
    /\ UNCHANGED <<clauses, n, outputAll, solver, watchlist, assignment, d,
                   state, a, tried_something, call, calls, yielded, iterCalls,
                   iterYielded>>

\* Lines 19-28: the next value of "for a in [0, 1]" is bound and
\* update_watchlist runs.
RecTry ==
    /\ solver = "recursive" /\ pc = "frame" /\ Top.d < n /\ Top.a < 2
    /\ call' = CallRecord(watchlist, assignment, Top.d, Top.a)
    /\ assignment' = call'.asg
    /\ watchlist' = call'.post
    /\ calls' = Append(calls, call')
    /\ pc' = IF call'.hangs THEN "hung" ELSE "updated"
    /\ UNCHANGED <<clauses, n, outputAll, solver, d, state, a,
                   tried_something, stack, yielded, iterCalls, iterYielded>>

\* Line 29: the update succeeded, _solve is called for d + 1.
RecDescend ==
    /\ solver = "recursive" /\ pc = "updated" /\ call.ok
    /\ stack' = Append([stack EXCEPT ![Len(stack)].a = @ + 1],
                       [d |-> Top.d + 1, a |-> 0])
    /\ pc' = "frame"
    /\ UNCHANGED <<clauses, n, outputAll, solver, watchlist, assignment, d,
                   state, a, tried_something, call, calls, yielded, iterCalls,
                   iterYielded>>

\* Line 24, condition false: the update failed, next a.
RecFail ==
    /\ solver = "recursive" /\ pc = "updated" /\ ~call.ok
    /\ stack' = [stack EXCEPT ![Len(stack)].a = @ + 1]
    /\ pc' = "frame"
    /\ UNCHANGED <<clauses, n, outputAll, solver, watchlist, assignment, d,
                   state, a, tried_something, call, calls, yielded, iterCalls,
                   iterYielded>>

\* Variant of RecReturn without "assignment[d] = None".
RecReturnNoUnbind ==
    /\ solver = "recursive" /\ pc = "frame" /\ Top.d < n /\ Top.a = 2
    /\ stack' = Pop(stack)
    /\ pc' = IF Len(stack) = 1 THEN "done" ELSE "frame"
    /\ UNCHANGED <<clauses, n, outputAll, solver, watchlist, assignment, d,
                   state, a, tried_something, call, calls, yielded, iterCalls,
                   iterYielded>>

\* Line 32: the for loop is over, "assignment[d] = None", the call returns;
\* the return of the call at depth 0 ends the generator.
RecReturn ==
    /\ solver = "recursive" /\ pc = "frame" /\ Top.d < n /\ Top.a = 2
    /\ assignment' = [assignment EXCEPT ![Top.d] = None]
    /\ stack' = Pop(stack)
    /\ pc' = IF Len(stack) = 1 THEN "done" ELSE "frame"
    /\ UNCHANGED <<clauses, n, outputAll, solver, watchlist, d, state, a,
                   tried_something, call, calls, yielded, iterCalls,
                   iterYielded>>

Next ==
    \/ IterStart \/ IterYield \/ IterResume \/ IterEnterFor \/ IterTry
    \/ IterSkip \/ IterFail \/ IterAdvance \/ IterRetry \/ IterExhausted
    \/ IterBacktrack \/ ConsumerBreak \/ StartRecursive
    \/ RecStart \/ RecYield \/ RecResume \/ RecTry \/ RecDescend \/ RecFail
    \/ RecReturn

Spec == Init /\ [][Next]_vars

\* The program keeps running and the consumer keeps iterating.
FairSpec == Spec /\ WF_vars(Next)

TypeOK ==
    /\ solver \in {"iterative", "recursive"}
    /\ pc \in {"start", "loop", "for", "updated", "hung", "frame", "yielded",
               "done", "stopped"}
    /\ n \in 0..MaxVars
    /\ a \in 0..2

\* ---- properties ---------------------------------------------------------
\* Truth of a literal under an assignment: literal 2v is true iff
\* assignment[v] = 1, literal 2v+1 is true iff assignment[v] = 0.
LiteralTrue(asg, l) ==
    IF l % 2 = 0 THEN asg[l \div 2] = 1 ELSE asg[l \div 2] = 0

LiteralFalse(asg, l) ==
    IF l % 2 = 0 THEN asg[l \div 2] = 0 ELSE asg[l \div 2] = 1

Total(asg) == DOMAIN asg = 0..(n - 1) /\ \A v \in 0..(n - 1) : asg[v] \in {0, 1}

Satisfies(asg) ==
    \A j \in 1..Len(clauses) :
        \E i \in 1..Len(clauses[j]) : LiteralTrue(asg, clauses[j][i])

Models == {asg \in [0..(n - 1) -> {0, 1}] : Satisfies(asg)}

Finished == pc \in {"done", "stopped"}

IsPrefix(s, t) == Len(s) <= Len(t) /\ \A i \in 1..Len(s) : s[i] = t[i]

\* C1 (soundness): with n >= 1 variables, every assignment yielded by the
\* iterative or the recursive solver is total and makes at least one literal
\* of every clause true.
C1_Soundness ==
    n >= 1 =>
        /\ \A i \in 1..Len(yielded) : Total(yielded[i]) /\ Satisfies(yielded[i])
        /\ \A i \in 1..Len(iterYielded) :
              Total(iterYielded[i]) /\ Satisfies(iterYielded[i])
        /\ pc = "yielded" => Total(assignment) /\ Satisfies(assignment)

C1_Witness ==
    /\ pc = "yielded" /\ solver = "recursive" /\ n = 3
    /\ Len(clauses) = 2 /\ Len(yielded) = 2 /\ Len(iterYielded) >= 2

\* C2 (completeness): with n >= 1 variables, when the consumer has pulled a
\* solver to exhaustion, the yielded assignments are exactly the total
\* assignments satisfying every clause, each yielded once; so nothing is
\* yielded only if no assignment satisfies the instance.
C2_Completeness ==
    (pc = "done" /\ n >= 1) =>
        /\ {yielded[i] : i \in 1..Len(yielded)} = Models
        /\ \A i, j \in 1..Len(yielded) : i # j => yielded[i] # yielded[j]

C2_Witness ==
    /\ pc = "done" /\ solver = "recursive" /\ n = 3
    /\ Len(yielded) = 3 /\ Len(iterYielded) = 3

\* C3 (solver equivalence, solutions): on the same instance the recursive
\* solver yields the same assignments in the same order as the iterative
\* solver did.
C3_SameSolutions ==
    solver = "recursive" =>
        /\ IsPrefix(yielded, iterYielded)
        /\ Finished => yielded = iterYielded

C3_Witness ==
    /\ solver = "recursive" /\ pc = "done" /\ Len(yielded) >= 2
    /\ yielded = iterYielded

\* C4 (solver equivalence, contradiction points): on the same instance the
\* recursive solver issues the same sequence of update_watchlist calls as
\* the iterative solver did: same falsified literal, same assignment seen,
\* same result, same contradicted clause, same watchlist afterwards.
C4_SameCalls ==
    solver = "recursive" =>
        /\ IsPrefix(calls, iterCalls)
        /\ Finished => calls = iterCalls

C4_Witness ==
    /\ solver = "recursive" /\ pc = "done" /\ calls = iterCalls
    /\ \E i \in 1..Len(calls) : ~calls[i].ok
    /\ \E i \in 1..Len(calls) : calls[i].ok /\ calls[i].lit >= 2

\* C5 (watchlist conservation): once the watchlist is set up, every clause
\* index is at exactly one position of exactly one of the 2n queues, and
\* that queue belongs to a literal of the clause.
Positions(wl, c) ==
    {<<l, i>> \in (0..(2 * n - 1)) \X (1..Len(clauses)) :
        i <= Len(wl[l]) /\ wl[l][i] = c}

Conserved(wl) ==
    /\ DOMAIN wl = 0..(2 * n - 1)
    /\ \A l \in 0..(2 * n - 1) : Len(wl[l]) <= Len(clauses)
    /\ \A c \in 1..Len(clauses) :
          /\ Cardinality(Positions(wl, c)) = 1
          /\ \A p \in Positions(wl, c) :
                \E i \in 1..Len(clauses[c]) : clauses[c][i] = p[1]

C5_Conservation ==
    (pc # "start" /\ n >= 1) => Conserved(watchlist)

C5_Witness ==
    /\ solver = "iterative" /\ pc = "loop" /\ Len(clauses) = 2
    /\ \E i \in 1..Len(calls) : ~calls[i].ok /\ calls[i].post # calls[i].pre
    /\ watchlist # SetupWatchlist(clauses, n)
    /\ \E v \in 0..(n - 1) : assignment[v] = None

\* The literal of the queue holding clause c is not false under asg.
WatchNotFalse(wl, asg, c) ==
    \A l \in 0..(2 * n - 1) :
        (\E i \in 1..Len(wl[l]) : wl[l][i] = c) => ~LiteralFalse(asg, l)

InQueue(q, c) == \E i \in 1..Len(q) : q[i] = c

\* Position of clause c in queue q.
PosIn(q, c) == CHOOSE i \in 1..Len(q) : q[i] = c

\* C6 as stated (watched literal never false, single exception): when a
\* call of update_watchlist has returned, every clause other than the one
\* just reported as contradicted is in the queue of a literal that is not
\* false under the current assignment.
C6_Original ==
    pc = "updated" =>
        \A c \in 1..Len(clauses) :
            \/ (~call.ok /\ c = call.clause)
            \/ WatchNotFalse(watchlist, assignment, c)

\* C6 (amended): when a call of update_watchlist has returned, every clause
\* is in the queue of a literal that is not false under the current
\* assignment, except, after a reported contradiction, the clauses left in
\* the falsified literal's queue: the contradicted clause and every clause
\* queued behind it.
C6_WatchedNotFalse ==
    pc = "updated" =>
        \A c \in 1..Len(clauses) :
            \/ (~call.ok /\ InQueue(watchlist[call.lit], c))
            \/ WatchNotFalse(watchlist, assignment, c)

C6_Witness ==
    /\ pc = "updated" /\ ~call.ok /\ Len(watchlist[call.lit]) = 2
    /\ Head(watchlist[call.lit]) = call.clause
    /\ ~WatchNotFalse(watchlist, assignment, watchlist[call.lit][2])

\* C7 as stated (queue after a contradiction): when update_watchlist has
\* reported failure for literal L, the contradicted clause is no longer in
\* L's queue, and L's queue is exactly the clauses that were behind it, in
\* their original order.
C7_Original ==
    (pc = "updated" /\ ~call.ok) =>
        LET q == call.pre[call.lit]
            k == PosIn(q, call.clause)
        IN  /\ ~InQueue(watchlist[call.lit], call.clause)
            /\ watchlist[call.lit] = SubSeq(q, k + 1, Len(q))

\* C7 (amended): when update_watchlist has reported failure for literal L,
\* the contradicted clause is still at the head of L's queue, followed by
\* the clauses that were behind it, in their original order and unprocessed;
\* the clauses that were ahead of it are gone from L's queue.
C7_QueueAfterContradiction ==
    (pc = "updated" /\ ~call.ok) =>
        LET q == call.pre[call.lit]
            k == PosIn(q, call.clause)
        IN  /\ InQueue(q, call.clause)
            /\ Head(watchlist[call.lit]) = call.clause
            /\ watchlist[call.lit] = SubSeq(q, k, Len(q))
            /\ \A i \in 1..(k - 1) : ~InQueue(watchlist[call.lit], q[i])

C7_Witness ==
    /\ pc = "updated" /\ ~call.ok /\ solver = "recursive"
    /\ Len(call.pre[call.lit]) = 2
    /\ watchlist[call.lit] = call.pre[call.lit]
    /\ Head(watchlist[call.lit]) = call.clause

\* C8 (result of update): for a call of update_watchlist on a literal L that
\* is false under the assignment, failure is reported iff some clause in L's
\* queue at the time of the call has all its literals false; on success L's
\* queue is empty, every other queue is its old content followed by clauses
\* taken from L's queue, each such clause having the queue's literal among
\* its literals and that literal unassigned or true, and every clause of
\* L's old queue has been appended to some queue.
AllFalse(asg, c) ==
    \A i \in 1..Len(clauses[c]) : LiteralFalse(asg, clauses[c][i])

C8_UpdateResult ==
    (pc = "updated" /\ LiteralFalse(call.asg, call.lit)) =>
        LET L == call.lit
            q == call.pre[L]
        IN  /\ ~call.ok <=> \E i \in 1..Len(q) : AllFalse(call.asg, q[i])
            /\ call.ok =>
                /\ call.post[L] = <<>>
                /\ \A l \in (0..(2 * n - 1)) \ {L} :
                      /\ IsPrefix(call.pre[l], call.post[l])
                      /\ \A i \in (Len(call.pre[l]) + 1)..Len(call.post[l]) :
                            /\ InQueue(q, call.post[l][i])
                            /\ \E j \in 1..Len(clauses[call.post[l][i]]) :
                                  clauses[call.post[l][i]][j] = l
                            /\ ~LiteralFalse(call.asg, l)
                /\ \A i \in 1..Len(q) :
                      \E l \in (0..(2 * n - 1)) \ {L} :
                          \E j \in (Len(call.pre[l]) + 1)..Len(call.post[l]) :
                              call.post[l][j] = q[i]

C8_Witness ==
    /\ pc = "updated" /\ call.ok /\ LiteralFalse(call.asg, call.lit)
    /\ Len(call.pre[call.lit]) = 1
    /\ \E l \in 0..(2 * n - 1) :
          /\ Len(call.pre[l]) = 1 /\ Len(call.post[l]) = 2
          /\ call.post[l][2] = call.pre[call.lit][1]

\* C9 as stated (empty instance): with zero clauses and zero variables each
\* solver, pulled to its end, has yielded exactly one solution, the empty
\* assignment.
C9_Original ==
    (n = 0 /\ Finished) => yielded = << <<>> >>

\* C9 (amended): with zero clauses and zero variables each solver returns
\* at once on the empty watchlist and yields no assignment at all.
C9_EmptyInstance ==
    n = 0 =>
        /\ pc \in {"start", "done"}
        /\ yielded = <<>>
        /\ iterYielded = <<>>

C9_Witness ==
    /\ n = 0 /\ clauses = <<>> /\ solver = "recursive" /\ pc = "done"
    /\ yielded = <<>>

\* C10 (termination): under the fair specification every run reaches the end
\* of the recursive run, which comes after the end of the iterative run;
\* when the consumer keeps requesting, both solvers reach exhaustion (the
\* iterative loop returns from depth 0, the top-level recursive call
\* returns); and no solver ever yields more than 2^n assignments.
C10_Termination ==
    /\ <>(/\ solver = "recursive" /\ Finished /\ iterCalls = calls
          /\ outputAll => (pc = "done" /\ stack = <<>>))
    /\ [](Len(yielded) <= 2 ^ n /\ Len(iterYielded) <= 2 ^ n)

C10_Witness ==
    /\ solver = "recursive" /\ pc = "done" /\ outputAll /\ n = 3
    /\ Len(yielded) >= 4 /\ Len(iterYielded) = Len(yielded)
    /\ \E i \in 1..Len(calls) : ~calls[i].ok

\* C11 (contradiction is routine control flow): a failed update for value
\* false at depth d (an even literal 2d) is followed, as the very next
\* trial, by value true at the same depth (literal 2d + 1) with variables
\* 0..d-1 bound as before; no run ends or yields with such a failure as its
\* last trial, and a run that has ended by itself has tried both values at
\* depth 0.
C11_ContradictionRoutine ==
    n >= 1 =>
        /\ \A i \in 1..Len(calls) :
              (~calls[i].ok /\ calls[i].lit % 2 = 0) =>
                  /\ i = Len(calls) => pc \in {"updated", "for", "frame"}
                  /\ i < Len(calls) =>
                        /\ calls[i + 1].lit = calls[i].lit + 1
                        /\ \A v \in 0..((calls[i].lit \div 2) - 1) :
                              calls[i + 1].asg[v] = calls[i].asg[v]
        /\ pc = "done" =>
              /\ \E i \in 1..Len(calls) : calls[i].lit = 0
              /\ \E i \in 1..Len(calls) : calls[i].lit = 1
              /\ solver = "iterative" => (d = 0 /\ state[0] = 3)

C11_Witness ==
    /\ pc = "done" /\ solver = "iterative" /\ yielded # <<>>
    /\ \E i \in 1..(Len(calls) - 1) :
          /\ ~calls[i].ok /\ calls[i].lit = 2
          /\ calls[i + 1].lit = 3 /\ calls[i + 1].ok
          /\ calls[i + 1].asg[0] = calls[i].asg[0]

\* C12 (literal encoding is a bijection): for every variable v in 0..n-1 and
\* polarity bit p, the literal (v << 1) | p lies in 0..2n-1, decodes to v
\* with >> 1 and to p with & 1, and no other pair gives the same literal;
\* every literal of the instance's clauses is the encoding of what it
\* decodes to, and so is the literal of every update_watchlist call.
C12_EncodingBijection ==
    /\ \A v \in 0..(n - 1), p \in 0..1 :
          /\ Encode(v, p) \in 0..(2 * n - 1)
          /\ LitVar(Encode(v, p)) = v
          /\ LitBit(Encode(v, p)) = p
          /\ \A v2 \in 0..(n - 1), p2 \in 0..1 :
                Encode(v2, p2) = Encode(v, p) => (v2 = v /\ p2 = p)
    /\ \A j \in 1..Len(clauses) : \A i \in 1..Len(clauses[j]) :
          /\ clauses[j][i] \in 0..(2 * n - 1)
          /\ LitVar(clauses[j][i]) \in 0..(n - 1)
          /\ Encode(LitVar(clauses[j][i]), LitBit(clauses[j][i])) = clauses[j][i]
    /\ pc = "updated" =>
          /\ call.lit \in 0..(2 * n - 1)
          /\ Encode(LitVar(call.lit), LitBit(call.lit)) = call.lit

C12_Witness ==
    /\ n = 3 /\ pc = "updated" /\ call.lit = 5
    /\ \E j \in 1..Len(clauses) : \E i \in 1..Len(clauses[j]) :
          clauses[j][i] = Encode(2, 1)
    /\ \E j \in 1..Len(clauses) : \E i \in 1..Len(clauses[j]) :
          clauses[j][i] = Encode(1, 0)

\* C13 (falsified-literal convention): in every call the solvers make after
\* binding assignment[d] = a, the literal passed to update_watchlist is a
\* literal of variable d, it is the one literal of variable d that
\* update_watchlist's own test does not accept, and it is the positive
\* (even) literal when a = 0 and the negated (odd) literal when a = 1.
C13_FalsifiedLiteral ==
    /\ \A i \in 1..Len(calls) :
          LET c == calls[i]
          IN  /\ c.asg[c.d] = c.a
              /\ LitVar(c.lit) = c.d
              /\ \A p \in 0..1 :
                    ~IsAlternative(c.asg, Encode(c.d, p)) <=> Encode(c.d, p) = c.lit
              /\ LiteralFalse(c.asg, c.lit)
              /\ c.a = 0 <=> c.lit = Encode(c.d, 0)
              /\ c.a = 1 <=> c.lit = Encode(c.d, 1)
    /\ (pc = "updated" /\ solver = "iterative") => (call.d = d /\ call.a = a)
    /\ (pc = "updated" /\ solver = "recursive") =>
          (call.d = Top.d /\ call.a = Top.a)

C13_Witness ==
    /\ pc = "updated" /\ solver = "recursive" /\ call.d = 1 /\ call.a = 1
    /\ call.lit = 3 /\ call.pre[3] # <<>> /\ call.ok
    /\ \E i \in 1..Len(calls) : calls[i].a = 0 /\ calls[i].lit = 2

\* s is t with its first elements dropped.
IsSuffix(s, t) ==
    /\ Len(s) <= Len(t)
    /\ \A i \in 1..Len(s) : s[i] = t[Len(t) - Len(s) + i]

\* The step runs update_watchlist.
TryStep == Len(calls') = Len(calls) + 1

\* The step unbinds a variable, retreats to a smaller depth, yields an
\* assignment or resumes after a yield.
QuietStep ==
    \/ \E v \in 0..(n - 1) : assignment[v] # None /\ assignment'[v] = None
    \/ solver = "iterative" /\ d' < d
    \/ solver = "recursive" /\ Len(stack') < Len(stack)
    \/ pc # "yielded" /\ pc' = "yielded"
    \/ pc = "yielded" /\ pc' \in {"loop", "frame"}

\* C14 (no undo on backtrack): within a search, a step changes the
\* watchlist only if it runs update_watchlist, and then only by taking
\* clauses from the head of the falsified literal's queue and appending them
\* to other queues; unbinding, retreating, yielding and resuming leave every
\* queue as it is, and after each of them no clause watches a false literal.
C14_NoUndo ==
    [][(pc # "start" /\ pc' # "start" /\ n >= 1) =>
          /\ watchlist' # watchlist =>
                /\ TryStep
                /\ IsSuffix(watchlist'[call'.lit], watchlist[call'.lit])
                /\ \A l \in (0..(2 * n - 1)) \ {call'.lit} :
                      IsPrefix(watchlist[l], watchlist'[l])
          /\ QuietStep =>
                /\ ~TryStep
                /\ watchlist' = watchlist
                /\ \A c \in 1..Len(clauses) :
                      WatchNotFalse(watchlist', assignment', c)]_vars

C14_Witness ==
    /\ solver = "iterative" /\ pc = "loop" /\ d < n
    /\ \E c \in 1..Len(clauses) : \E l \in 0..(2 * n - 1) :
          /\ InQueue(watchlist[l], c)
          /\ l # clauses[c][1]
          /\ assignment[LitVar(clauses[c][1])] = None

\* x comes before y in lexicographic order, variable 0 most significant.
LexLess(x, y) ==
    \E i \in 0..(n - 1) :
        /\ x[i] < y[i]
        /\ \A j \in 0..(i - 1) : x[j] = y[j]

\* C15 (enumeration order): the assignments yielded by one search are in
\* strictly increasing lexicographic order, false before true and variable 0
\* most significant, and the first of them is the lexicographically smallest
\* satisfying assignment.
C15_EnumerationOrder ==
    /\ \A i \in 1..(Len(yielded) - 1) : LexLess(yielded[i], yielded[i + 1])
    /\ Len(yielded) >= 1 =>
          /\ yielded[1] \in Models
          /\ \A m \in Models : m = yielded[1] \/ LexLess(yielded[1], m)

C15_Witness ==
    /\ pc = "done"
    /\ Len(yielded) >= 3
    /\ \E i \in 0..(n - 1) : yielded[1][i] = 1

\* Under asg the variables below depth are bound and those above it are not.
ShapeAt(asg, depth) ==
    /\ \A i \in 0..(depth - 1) : asg[i] \in {0, 1}
    /\ \A i \in (depth + 1)..(n - 1) : asg[i] = None

\* C16 (shape of the partial assignment): when an engine is at depth d and
\* about to pick a value (the head of the iterative loop with d < n, the
\* entry of the recursive call for d), every variable below d is bound to 0
\* or 1 and every variable above d is unassigned; every update at depth d
\* runs with exactly the variables 0..d bound.
C16_PartialAssignmentShape ==
    /\ (solver = "iterative" /\ pc = "loop" /\ d < n) => ShapeAt(assignment, d)
    /\ (solver = "recursive" /\ pc = "frame" /\ Top.d < n /\ Top.a = 0) =>
          ShapeAt(assignment, Top.d)
    /\ pc = "updated" =>
          /\ ShapeAt(call.asg, call.d)
          /\ call.asg[call.d] \in {0, 1}
          /\ assignment = call.asg

C16_Witness ==
    /\ solver = "recursive" /\ pc = "updated" /\ n = 3
    /\ call.d = 1 /\ call.a = 1
    /\ \E k \in 1..Len(calls) : calls[k].d = 2

\* C17 (buffer after exhaustion): when the search is exhausted (the
\* iterative solver returns at depth 0, the recursive top-level call
\* finishes) the assignment buffer is entirely unassigned, in the iterative
\* solver as in the recursive one.  The iterative solver returns at depth 0
\* without unbinding assignment[0], so this fails whenever value 1 was the
\* last one to succeed there.
C17_BufferAfterExhaustion ==
    pc = "done" => \A i \in DOMAIN assignment : assignment[i] = None

\* C18 (fresh trial record on descent): in the iterative solver, when a
\* successful update advances the engine from depth d to depth d + 1 < n,
\* state[i] is 0 for every i >= d + 1; after a yield the engine returns to
\* depth n - 1 with the trial record unchanged and the yielded value of
\* variable n - 1 marked as tried; no update is run twice for the same
\* partial assignment.
C18_FreshTrialRecord ==
    [][(solver = "iterative" /\ solver' = "iterative") =>
          /\ (pc = "updated" /\ pc' = "loop" /\ d' = d + 1 /\ d' < n) =>
                /\ call.ok
                /\ \A i \in d'..(n - 1) : state'[i] = 0
          /\ (pc = "yielded" /\ pc' = "loop") =>
                /\ d' = n - 1
                /\ state' = state
                /\ TriedBit(state'[d'], assignment'[d']) = 1
          /\ TryStep =>
                \A k \in 1..Len(calls) : calls[k].asg # call'.asg]_vars

C18_Witness ==
    /\ solver = "iterative" /\ pc = "loop"
    /\ d >= 1 /\ d < n
    /\ state[d] = 0 /\ state[d - 1] = 3
    /\ \E k \in 1..Len(calls) : calls[k].d = d

\* C19 (update terminates without re-queuing on itself): in every call the
\* engines make, update_watchlist never picks the falsified literal itself
\* as the alternative of a clause, so nothing is appended to the queue being
\* drained and the call ends after at most as many iterations as that queue
\* held clauses when the call began.
C19_NoSelfRequeue ==
    /\ pc # "hung"
    /\ \A k \in 1..Len(calls) :
          LET c == calls[k]
          IN  /\ ~c.hangs
              /\ \A i \in 1..Len(c.pre[c.lit]) :
                    ~Requeues(c.pre[c.lit][i], c.lit, c.asg)
              /\ IsSuffix(c.post[c.lit], c.pre[c.lit])
              /\ c.iters <= Len(c.pre[c.lit])

C19_Witness ==
    /\ pc = "updated"
    /\ Len(call.pre[call.lit]) >= 2
    /\ call.iters = 2
    /\ Len(call.post[call.lit]) < Len(call.pre[call.lit])

\* C20 (trial record values): in the iterative solver state[d] only takes
\* the values 0, 1 and 3, never 2, and for every depth i below the current
\* depth state[i] = 1 exactly when assignment[i] = 0 and state[i] = 3
\* exactly when assignment[i] = 1.
C20_TrialRecordValues ==
    (solver = "iterative" /\ pc # "start") =>
        /\ \A i \in DOMAIN state : state[i] \in {0, 1, 3}
        /\ \A i \in DOMAIN state :
              i < d =>
                  /\ state[i] = 1 <=> assignment[i] = 0
                  /\ state[i] = 3 <=> assignment[i] = 1

C20_Witness ==
    /\ solver = "iterative" /\ pc = "loop" /\ d = 2
    /\ state[0] = 3 /\ assignment[0] = 1
    /\ state[1] = 1 /\ assignment[1] = 0

====
